---- MODULE Spec2Model ----
(***************************************************************************)
(* bidoof: a value matching and transforming tool.                         *)
(*                                                                         *)
(* A flat list of matcher descriptions and instructions is grouped into    *)
(* programs (parseIntoPrograms), and the programs are run in order over an *)
(* evolving value (runPrograms / runProgram).  JavaScript values are       *)
(* modelled as primitives or references into a heap of objects, so that    *)
(* mutation in place and reference identity are visible.  The engine is    *)
(* given step by step (the actions) and as a function (runPrograms); the   *)
(* legacy engine (doBidoof) is given as a function.                        *)
(***************************************************************************)
EXTENDS Integers, Sequences, FiniteSets, TLC

\* Longest token list handed to makeBidoof.
MaxTokens == 4
\* Number of heap cells available to one execution.
MaxAddr == 16
\* Most invocations of one compiled transform.
MaxRuns == 2

(***************************************************************************)
(* JavaScript values                                                       *)
(***************************************************************************)
Num(n) == [t |-> "number", n |-> n]
Ref(a) == [t |-> "object", n |-> a]
\* A reference to an array; an array is an object too.
Arr(a) == [t |-> "array", n |-> a]
\* The string "[object Object]" followed by the decimal digits of n.
Str(n) == [t |-> "string", n |-> n]
Undefined == [t |-> "undefined", n |-> 0]
NaN == [t |-> "NaN", n |-> 0]
\* Marks a property that an object does not have (not a JavaScript value).
Absent == [t |-> "absent", n |-> 0]

IsRef(v) == v.t \in {"object", "array"}

Keys == {"a", "b", "c"}
KeySeq == <<"a", "b", "c">>
Addr == 1..MaxAddr

NoProps == [k \in Keys |-> Absent]
\* An object on the heap: its named properties f, its indexed elements items
\* (primitives, in what is explored here), and whether it is a plain object
\* or array, as opposed to an instance of a class.
FreeCell == [used |-> FALSE, f |-> NoProps, items |-> <<>>, plain |-> TRUE]
Cell(f) == [used |-> TRUE, f |-> f, items |-> <<>>, plain |-> TRUE]
ArrayCell(items) ==
  [used |-> TRUE, f |-> NoProps, items |-> items, plain |-> TRUE]
\* new C(), with the properties f assigned to it.
InstanceCell(f) == [used |-> TRUE, f |-> f, items |-> <<>>, plain |-> FALSE]

FreeAddrs(h) == {a \in Addr : ~h[a].used}
\* A fresh object lives at the lowest unused address.
Alloc(h) == CHOOSE a \in FreeAddrs(h) : \A b \in FreeAddrs(h) : a <= b

\* What a modifier or a callback hands back: the heap after it ran, the value
\* it returned, and whether it threw instead of returning.
Ret(h, v) == [h |-> h, v |-> v, threw |-> FALSE]
Threw(h) == [h |-> h, v |-> Undefined, threw |-> TRUE]

RECURSIVE Size(_, _)
\* Number of objects in the tree under v.
Size(h, v) ==
  IF ~IsRef(v) THEN 0
  ELSE LET kids == {k \in Keys : IsRef(h[v.n].f[k])}
           RECURSIVE Sum(_)
           Sum(ks) == IF ks = {} THEN 0
                      ELSE LET k == CHOOSE x \in ks : TRUE
                           IN Size(h, h[v.n].f[k]) + Sum(ks \ {k})
       IN 1 + Sum(kids)

RECURSIVE Snapshot(_, _)
\* The deep content of v, without the addresses: what deep equality compares.
Snapshot(h, v) ==
  IF ~IsRef(v) THEN [t |-> v.t, n |-> v.n, f |-> <<>>, items |-> <<>>]
  ELSE [t |-> v.t, n |-> 0,
        f |-> [k \in {x \in Keys : h[v.n].f[x] # Absent} |->
                 Snapshot(h, h[v.n].f[k])],
        items |-> h[v.n].items]

RECURSIVE Reach(_, _)
\* Addresses of the objects in the tree under v.
Reach(h, v) ==
  IF ~IsRef(v) THEN {}
  ELSE {v.n} \cup UNION {Reach(h, h[v.n].f[k]) : k \in Keys}

\* Garbage collection: cells no root reaches are free again.
Collect(h, roots) ==
  LET live == UNION {Reach(h, r) : r \in roots}
  IN [a \in Addr |-> IF a \in live THEN h[a] ELSE FreeCell]

(***************************************************************************)
(* lodash/get and lodash/set, on the values above                          *)
(***************************************************************************)
\* A dotted string path is cast to its key sequence.
castPath(path) ==
  CASE path = "a.b" -> <<"a", "b">>
    [] path = "a" -> <<"a">>
    [] path = "c" -> <<"c">>
    [] OTHER -> <<path>>

RECURSIVE baseGet(_, _, _)
baseGet(h, object, keys) ==
  IF keys = <<>> THEN object
  ELSE IF ~IsRef(object) THEN Undefined
  ELSE IF h[object.n].f[Head(keys)] = Absent THEN Undefined
  ELSE baseGet(h, h[object.n].f[Head(keys)], Tail(keys))

lodashGet(h, object, path) == baseGet(h, object, castPath(path))

RECURSIVE baseSet(_, _, _, _)
\* The heap after writing value at keys below the object at address a; a key
\* on the way that holds no object gets a new empty object.
baseSet(h, a, keys, value) ==
  LET key == Head(keys)
      objValue == h[a].f[key]
  IN IF Len(keys) = 1 THEN [h EXCEPT ![a].f[key] = value]
     ELSE IF IsRef(objValue) THEN baseSet(h, objValue.n, Tail(keys), value)
     ELSE LET n == Alloc(h)
              h1 == [h EXCEPT ![n] = Cell(NoProps), ![a].f[key] = Ref(n)]
          IN baseSet(h1, n, Tail(keys), value)

\* lodashSet(object, path, value): a target that is no object is left alone.
lodashSet(h, object, path, value) ==
  IF ~IsRef(object) THEN h ELSE baseSet(h, object.n, castPath(path), value)

\* Plain objects and arrays are merged property by property; anything else
\* in the source is assigned as it is.
isMergeable(h, srcValue) == IsRef(srcValue) /\ h[srcValue.n].plain

RECURSIVE baseMerge(_, _, _)
RECURSIVE MergeProps(_, _, _, _)
\* The element at index i after the source's elements were assigned over the
\* object's, index by index.
MergedItem(objItems, srcItems, i) ==
  IF i <= Len(srcItems) THEN srcItems[i] ELSE objItems[i]

\* The heap after merging the object at address src into the one at address
\* a: every element and every property of the source is assigned to the
\* object, except that a property holding a plain object or an array is
\* merged into what the object has there (into a new empty object or array if
\* it has none).
baseMerge(h, a, src) ==
  LET n == IF Len(h[src].items) > Len(h[a].items)
           THEN Len(h[src].items) ELSE Len(h[a].items)
      h1 == [h EXCEPT ![a].items =
               [i \in 1..n |-> MergedItem(h[a].items, h[src].items, i)]]
  IN MergeProps(h1, a, src, KeySeq)

MergeProps(h, a, src, ks) ==
  IF ks = <<>> THEN h
  ELSE LET key == Head(ks)
           srcValue == h[src].f[key]
           objValue == h[a].f[key]
       IN IF srcValue = Absent THEN MergeProps(h, a, src, Tail(ks))
          ELSE IF isMergeable(h, srcValue)
          THEN IF IsRef(objValue) /\ (srcValue.t = "array" => objValue.t = "array")
               THEN MergeProps(baseMerge(h, objValue.n, srcValue.n),
                               a, src, Tail(ks))
               ELSE LET new == Alloc(h)
                        h1 == [h EXCEPT
                                 ![new] = Cell(NoProps),
                                 ![a].f[key] = [srcValue EXCEPT !.n = new]]
                    IN MergeProps(baseMerge(h1, new, srcValue.n),
                                  a, src, Tail(ks))
          ELSE IF srcValue = Undefined /\ objValue # Absent
               THEN MergeProps(h, a, src, Tail(ks))
               ELSE MergeProps([h EXCEPT ![a].f[key] = srcValue],
                               a, src, Tail(ks))

\* lodashMerge(object, source): nothing is merged into or from a value that is
\* no object.
lodashMerge(h, object, source) ==
  IF ~IsRef(object) \/ ~IsRef(source) THEN h
  ELSE baseMerge(h, object.n, source.n)

(***************************************************************************)
(* The callbacks a caller passes to modify and transform                   *)
(***************************************************************************)
\* (value) => value + k
AddCallback(k) == [name |-> "add", k |-> k]
\* (value) => (value.c = 1), in a strict-mode module
SetCCallback == [name |-> "setC", k |-> 1]

\* JavaScript's x + k for a number k.  An object or a string is concatenated
\* with the digits of k (a one-digit k, as far as strings go).
Plus(x, k) ==
  CASE x.t = "number" -> Num(x.n + k)
    [] x.t \in {"undefined", "NaN"} -> NaN
    [] x.t \in {"object", "array"} -> Str(k)
    [] OTHER -> Str(x.n * 10 + k)

CallCallback(cb, h, x) ==
  CASE cb.name = "add" -> Ret(h, Plus(x, cb.k))
    [] cb.name = "setC" ->
         IF IsRef(x) THEN Ret([h EXCEPT ![x.n].f["c"] = Num(cb.k)], Num(cb.k))
         ELSE Threw(h)

(***************************************************************************)
(* Instructions                                                            *)
(***************************************************************************)
\* An instruction is an object tagged with the private INSTRUCTION symbol and
\* holding its modifier; the modifier (a closure) is kept as the name of the
\* function that built it together with the values it closed over.
makeInstruction(modifier) == [INSTRUCTION |-> TRUE, modifier |-> modifier]

isInstruction(item) == "INSTRUCTION" \in DOMAIN item /\ item.INSTRUCTION

RECURSIVE CallModifier(_, _, _)

(***************************************************************************)
(* immer, with autoFreeze off                                              *)
(***************************************************************************)
NoDrafts == [a \in Addr |-> 0]

\* Plain objects and arrays are drafted; primitives and instances of classes
\* are handed to the recipe as they are.
isDraftable(h, v) == IsRef(v) /\ h[v.n].plain

RECURSIVE createDraft(_, _)
RECURSIVE DraftProps(_, _, _)
\* A draft of v: a copy of every draftable object under v.  s.orig maps the
\* address of each copy to the address of the object it was copied from.
createDraft(s, v) ==
  IF ~isDraftable(s.h, v) THEN [h |-> s.h, orig |-> s.orig, v |-> v]
  ELSE LET d == Alloc(s.h)
           s1 == [h |-> [s.h EXCEPT ![d] = s.h[v.n]],
                  orig |-> [s.orig EXCEPT ![d] = v.n]]
           s2 == DraftProps(s1, d, KeySeq)
       IN [h |-> s2.h, orig |-> s2.orig, v |-> [v EXCEPT !.n = d]]

DraftProps(s, d, ks) ==
  IF ks = <<>> THEN s
  ELSE LET c == createDraft(s, s.h[d].f[Head(ks)])
       IN DraftProps([h |-> [c.h EXCEPT ![d].f[Head(ks)] = c.v],
                      orig |-> c.orig], d, Tail(ks))

RECURSIVE finalize(_, _, _)
RECURSIVE FinalizeProps(_, _, _, _)
\* Finalizing a draft: a copy whose properties are (after finalizing them) the
\* very properties of its original is dropped for the original; a copy that
\* differs stays, as a new object.
finalize(h, orig, v) ==
  IF ~IsRef(v) THEN [h |-> h, v |-> v]
  ELSE LET h1 == FinalizeProps(h, orig, v.n, KeySeq)
       IN IF orig[v.n] # 0 /\ h1[v.n] = h1[orig[v.n]]
          THEN [h |-> h1, v |-> [v EXCEPT !.n = orig[v.n]]]
          ELSE [h |-> h1, v |-> v]

FinalizeProps(h, orig, a, ks) ==
  IF ks = <<>> THEN h
  ELSE LET c == finalize(h, orig, h[a].f[Head(ks)])
       IN FinalizeProps([c.h EXCEPT ![a].f[Head(ks)] = c.v], orig, a, Tail(ks))

\* The copies that the result does not use are dropped.
DropDrafts(h, orig, result) ==
  [a \in Addr |->
     IF orig[a] # 0 /\ a \notin Reach(h, result) THEN FreeCell ELSE h[a]]

\* immer.produce(base, draft => { instruction.modifier(draft) }): the recipe
\* returns nothing, so a base that cannot be drafted (a primitive) comes back
\* as it is and an object comes back as the finalized draft.  (An instance of
\* a class as the base itself is not among the inputs explored.)
produce(h, base, instruction) ==
  IF ~isDraftable(h, base)
  THEN LET r == CallModifier(instruction, h, base)
       IN IF r.threw THEN Threw(r.h) ELSE Ret(r.h, base)
  ELSE LET d == createDraft([h |-> h, orig |-> NoDrafts], base)
           r == CallModifier(instruction, d.h, d.v)
           fin == finalize(r.h, d.orig, d.v)
       IN IF r.threw THEN Threw(DropDrafts(r.h, d.orig, Undefined))
          ELSE Ret(DropDrafts(fin.h, d.orig, fin.v), fin.v)

(***************************************************************************)
(* The instruction library                                                 *)
(***************************************************************************)
withoutMutating(instruction) ==
  makeInstruction([fn |-> "withoutMutating", instruction |-> instruction])

withoutMutatingModifier(m, h, input) == produce(h, input, m.instruction)

transform(callback) ==
  makeInstruction([fn |-> "transform", callback |-> callback])

transformModifier(m, h, input) == CallCallback(m.callback, h, input)

modifyMutate(callback) ==
  makeInstruction([fn |-> "modifyMutate", callback |-> callback])

\* A modify that hands back what the callback returned.
modifyMutateModifierReturning(m, h, input) == CallCallback(m.callback, h, input)

modifyMutateModifier(m, h, input) ==
  LET r == CallCallback(m.callback, h, input)
  IN IF r.threw THEN Threw(r.h) ELSE Ret(r.h, input)

modifyNoMutate(callback) == withoutMutating(modifyMutate(callback))

replace(newValue) ==
  makeInstruction([fn |-> "replace", newValue |-> newValue])

\* A replace that hands back its input.
replaceModifierKeeping(m, h, input) == Ret(h, input)

\* A replace that gives undefined for an input that is the new value already.
replaceModifierOnce(m, h, input) ==
  IF input = m.newValue THEN Ret(h, Undefined) ELSE Ret(h, m.newValue)

replaceModifier(m, h, input) == Ret(h, m.newValue)

mergeMutate(other) ==
  makeInstruction([fn |-> "mergeMutate", other |-> other])

mergeMutateModifier(m, h, input) == Ret(lodashMerge(h, input, m.other), input)

mergeNoMutate(other) == withoutMutating(mergeMutate(other))

setMutate(path, value) ==
  makeInstruction([fn |-> "setMutate", path |-> path, value |-> value])

setMutateModifier(m, h, input) ==
  Ret(lodashSet(h, input, m.path, m.value), input)

setNoMutate(path, value) == withoutMutating(setMutate(path, value))

appendMutate(items) ==
  makeInstruction([fn |-> "appendMutate", items |-> items])

\* input.push(...items): only an array has push.
appendMutateModifier(m, h, input) ==
  IF input.t # "array" THEN Threw(h)
  ELSE Ret([h EXCEPT ![input.n].items = @ \o m.items], input)

appendNoMutate(items) == withoutMutating(appendMutate(items))

prependMutate(items) ==
  makeInstruction([fn |-> "prependMutate", items |-> items])

\* input.unshift(...items): only an array has unshift.
prependMutateModifier(m, h, input) ==
  IF input.t # "array" THEN Threw(h)
  ELSE Ret([h EXCEPT ![input.n].items = m.items \o @], input)

prependNoMutate(items) ==
  makeInstruction([fn |-> "prependNoMutate", items |-> items])

\* A prepend that puts the items after the input's elements.
prependNoMutateModifierAfter(m, h, input) ==
  LET new == Alloc(h)
  IN Ret([h EXCEPT ![new] = ArrayCell(
            (IF input.t = "array" THEN h[input.n].items ELSE <<input>>)
            \o m.items)],
         Arr(new))

\* items.concat(input): a new array of the items followed by the elements of
\* input, or by input itself if it is no array.
prependNoMutateModifier(m, h, input) ==
  LET new == Alloc(h)
  IN Ret([h EXCEPT ![new] = ArrayCell(
            m.items
            \o (IF input.t = "array" THEN h[input.n].items ELSE <<input>>))],
         Arr(new))

deletePropertyMutate(propertyName) ==
  makeInstruction([fn |-> "deletePropertyMutate",
                   propertyName |-> propertyName])

\* delete input[propertyName]: undefined has no properties to delete; on any
\* other primitive the delete does nothing.
deletePropertyMutateModifier(m, h, input) ==
  IF input = Undefined THEN Threw(h)
  ELSE IF ~IsRef(input) THEN Ret(h, input)
  ELSE Ret([h EXCEPT ![input.n].f[m.propertyName] = Absent], input)

deletePropertyNoMutate(propertyName) ==
  withoutMutating(deletePropertyMutate(propertyName))

atMutate(path, instruction) ==
  makeInstruction([fn |-> "atMutate", path |-> path,
                   instruction |-> instruction])

atMutateModifier(m, h, input) ==
  LET child == lodashGet(h, input, m.path)
      r == CallModifier(m.instruction, h, child)
  IN IF r.threw THEN Threw(r.h)
     ELSE Ret(lodashSet(r.h, input, m.path, r.v), input)

atNoMutate(path, instruction) == withoutMutating(atMutate(path, instruction))

\* instruction.modifier(input)
CallModifier(instruction, h, input) ==
  LET m == instruction.modifier
  IN CASE m.fn = "withoutMutating" -> withoutMutatingModifier(m, h, input)
       [] m.fn = "transform" -> transformModifier(m, h, input)
       [] m.fn = "modifyMutate" -> modifyMutateModifier(m, h, input)
       [] m.fn = "replace" -> replaceModifier(m, h, input)
       [] m.fn = "atMutate" -> atMutateModifier(m, h, input)
       [] m.fn = "mergeMutate" -> mergeMutateModifier(m, h, input)
       [] m.fn = "setMutate" -> setMutateModifier(m, h, input)
       [] m.fn = "appendMutate" -> appendMutateModifier(m, h, input)
       [] m.fn = "prependMutate" -> prependMutateModifier(m, h, input)
       [] m.fn = "prependNoMutate" -> prependNoMutateModifier(m, h, input)
       [] m.fn = "deletePropertyMutate" ->
            deletePropertyMutateModifier(m, h, input)

(***************************************************************************)
(* serializable-types: descriptions, type definitions, isOfType            *)
(***************************************************************************)
\* The Number constructor, as written in a program description.
NumberDescription == [description |-> "Number"]
\* A type definition for the numbers greater than zero.
PositiveDescription == [description |-> "positive"]
\* t.anyObject
AnyObjectDescription == [description |-> "anyObject"]
\* t.array(t.any)
ArrayDescription == [description |-> "arrayOfAny"]

\* A constructor is coerced to the type of its instances; a type definition
\* is taken as it is.
coerceToType(item) ==
  IF item.description = "Number" THEN [type |-> "number"]
  ELSE [type |-> item.description]

isOfType(h, value, typeDef) ==
  CASE typeDef.type = "number" -> value.t \in {"number", "NaN"}
    [] typeDef.type = "positive" -> value.t = "number" /\ value.n > 0
    [] typeDef.type = "anyObject" -> IsRef(value)
    [] typeDef.type = "arrayOfAny" -> value.t = "array"
    [] OTHER -> FALSE

(***************************************************************************)
(* Program and parseIntoPrograms                                           *)
(***************************************************************************)
Program(matcher) ==
  [matcher |-> coerceToType(matcher), instructions |-> <<>>]

\* A matches that holds for every value.
matchesAnything(h, program, value) == TRUE

matches(h, program, value) == isOfType(h, value, program.matcher)

null == [null |-> TRUE]

\* What parseIntoPrograms hands back: the programs, or the error it threw.
Parsed(programs) == [threw |-> FALSE, programs |-> programs]
ParseError == [threw |-> TRUE, programs |-> <<>>]

RECURSIVE ParseLoop(_, _, _)
\* The loop of parseIntoPrograms over the items still to read.
ParseLoop(items, programs, currentProgram) ==
  IF items = <<>>
  THEN Parsed(IF currentProgram # null THEN Append(programs, currentProgram)
              ELSE programs)
  ELSE LET item == Head(items)
       IN IF isInstruction(item)
          THEN IF currentProgram = null THEN ParseError
               ELSE ParseLoop(Tail(items), programs,
                              [currentProgram EXCEPT
                                 !.instructions = Append(@, item)])
          ELSE ParseLoop(Tail(items),
                         IF currentProgram # null
                         THEN Append(programs, currentProgram) ELSE programs,
                         Program(item))

RECURSIVE AfterLeadingInstructions(_)
AfterLeadingInstructions(items) ==
  IF items # <<>> /\ isInstruction(Head(items))
  THEN AfterLeadingInstructions(Tail(items)) ELSE items

\* A parser that passes over the instructions before the first matcher.
parseIntoProgramsLenient(matchersAndInstructions) ==
  ParseLoop(AfterLeadingInstructions(matchersAndInstructions), <<>>, null)

\* A parser that forgets the program still open at the end of the list.
parseIntoProgramsUnsealed(matchersAndInstructions) ==
  LET r == ParseLoop(matchersAndInstructions, <<>>, null)
  IN IF r.threw \/ r.programs = <<>> THEN r
     ELSE Parsed(SubSeq(r.programs, 1, Len(r.programs) - 1))

parseIntoPrograms(matchersAndInstructions) ==
  ParseLoop(matchersAndInstructions, <<>>, null)

(***************************************************************************)
(* runProgram and runPrograms, as functions of their arguments             *)
(***************************************************************************)
\* What runProgram hands back, with the heap it leaves.
ProgramResult(h, matched, output) ==
  [h |-> h, threw |-> FALSE, matched |-> matched, output |-> output]
ProgramThrew(h) ==
  [h |-> h, threw |-> TRUE, matched |-> TRUE, output |-> Undefined]

RECURSIVE runProgramLoop(_, _, _, _, _)
\* runProgram's loop from the i-th instruction on.
runProgramLoop(h, prog, i, currentTarget, matched) ==
  IF i > Len(prog.instructions) THEN ProgramResult(h, matched, currentTarget)
  ELSE IF matches(h, prog, currentTarget)
       THEN LET r == CallModifier(prog.instructions[i], h, currentTarget)
            IN IF r.threw THEN ProgramThrew(r.h)
               ELSE runProgramLoop(r.h, prog, i + 1, r.v, TRUE)
       ELSE runProgramLoop(h, prog, i + 1, currentTarget, matched)

runProgram(h, prog, input) == runProgramLoop(h, prog, 1, input, FALSE)

RECURSIVE runProgramsLoop(_, _, _, _, _)
\* runPrograms' loop from the p-th program on.
runProgramsLoop(h, programs, options, p, currentTarget) ==
  IF p > Len(programs) THEN Ret(h, currentTarget)
  ELSE LET r == runProgram(h, programs[p], currentTarget)
       IN IF r.threw THEN Threw(r.h)
          ELSE IF r.matched /\ options.stopAfterFirstMatch
               THEN Ret(r.h, r.output)
               ELSE runProgramsLoop(r.h, programs, options, p + 1, r.output)

runPrograms(h, programs, options, input) ==
  runProgramsLoop(h, programs, options, 1, input)

\* makeBidoof(programDescription, options)(input), for a description that
\* parses.
makeBidoof(h, programDescription, options, input) ==
  runPrograms(h, parseIntoPrograms(programDescription).programs, options,
              input)

(***************************************************************************)
(* The legacy engine: instructions tagged by kind, collectGroups, doBidoof *)
(***************************************************************************)
legacyMakeInstruction(kind, props) ==
  [BIDOOF_INSTRUCTION |-> TRUE, kind |-> kind] @@ props

legacyIsInstruction(item) ==
  "BIDOOF_INSTRUCTION" \in DOMAIN item /\ item.BIDOOF_INSTRUCTION

legacyModify(modifierFn) ==
  legacyMakeInstruction("modify", [modifierFn |-> modifierFn])
legacyModifyMutate(modifierFn) ==
  legacyMakeInstruction("modifyMutate", [modifierFn |-> modifierFn])
legacyReplace(newValue) ==
  legacyMakeInstruction("replace", [newValue |-> newValue])

\* immerProduce(target, modifierFn): the callback is the recipe itself, so
\* what it returns counts.  For a target that cannot be drafted the result is
\* what the callback returned, or the target if it returned undefined.  For
\* an object the callback edits a draft; a callback that both edits the draft
\* and returns a value makes immer throw.
legacyProduce(h, base, modifierFn) ==
  IF ~IsRef(base)
  THEN LET r == CallCallback(modifierFn, h, base)
       IN IF r.threw THEN Threw(r.h)
          ELSE Ret(r.h, IF r.v = Undefined THEN base ELSE r.v)
  ELSE LET d == createDraft([h |-> h, orig |-> NoDrafts], base)
           r == CallCallback(modifierFn, d.h, d.v)
           fin == finalize(r.h, d.orig, d.v)
       IN IF r.threw THEN Threw(DropDrafts(r.h, d.orig, Undefined))
          ELSE IF r.v = Undefined
               THEN Ret(DropDrafts(fin.h, d.orig, fin.v), fin.v)
          ELSE IF fin.v # base
               THEN Threw(DropDrafts(r.h, d.orig, Undefined))
          ELSE Ret(DropDrafts(fin.h, d.orig, r.v), r.v)

\* processInstruction(target, instruction), for the kinds used here.
processInstruction(h, target, instruction) ==
  CASE instruction.kind = "modify" ->
         legacyProduce(h, target, instruction.modifierFn)
    [] instruction.kind = "modifyMutate" ->
         LET r == CallCallback(instruction.modifierFn, h, target)
         IN IF r.threw THEN Threw(r.h) ELSE Ret(r.h, target)
    [] instruction.kind = "replace" -> Ret(h, instruction.newValue)
    [] OTHER -> Threw(h)

RECURSIVE collectGroupsLoop(_, _, _)
\* The loop of collectGroups over the items still to read.
collectGroupsLoop(items, groups, currentGroup) ==
  IF items = <<>>
  THEN Parsed(IF currentGroup # null THEN Append(groups, currentGroup)
              ELSE groups)
  ELSE LET item == Head(items)
       IN IF legacyIsInstruction(item)
          THEN IF currentGroup = null THEN ParseError
               ELSE collectGroupsLoop(Tail(items), groups,
                                      [currentGroup EXCEPT
                                         !.instructions = Append(@, item)])
          ELSE collectGroupsLoop(Tail(items),
                                 IF currentGroup # null
                                 THEN Append(groups, currentGroup) ELSE groups,
                                 [matcher |-> coerceToType(item),
                                  instructions |-> <<>>])

collectGroups(matchersAndInstructions) ==
  collectGroupsLoop(matchersAndInstructions, <<>>, null)

\* What doBidoof hands back, with the before and after of every instruction
\* it processed.
LegacyRet(h, v, steps) == [h |-> h, v |-> v, threw |-> FALSE, steps |-> steps]
LegacyThrew(h, steps) ==
  [h |-> h, v |-> Undefined, threw |-> TRUE, steps |-> steps]

RECURSIVE processGroup(_, _, _, _, _)
\* The inner loop of doBidoof: every instruction of the group is processed,
\* each on the result of the one before.
processGroup(h, group, i, currentTarget, steps) ==
  IF i > Len(group.instructions) THEN LegacyRet(h, currentTarget, steps)
  ELSE LET r == processInstruction(h, currentTarget, group.instructions[i])
       IN IF r.threw THEN LegacyThrew(r.h, steps)
          ELSE processGroup(r.h, group, i + 1, r.v,
                            Append(steps, [before |-> currentTarget,
                                           after |-> r.v]))

RECURSIVE doBidoofLoop(_, _, _, _, _, _, _)
\* The outer loop of doBidoof: a group is processed if its matcher holds for
\* target, the value doBidoof was called with.
doBidoofLoop(h, target, options, groups, g, currentTarget, steps) ==
  IF g > Len(groups) THEN LegacyRet(h, currentTarget, steps)
  ELSE IF isOfType(h, target, groups[g].matcher)
       THEN LET r == processGroup(h, groups[g], 1, currentTarget, steps)
            IN IF r.threw \/ options.stopAfterFirstMatch THEN r
               ELSE doBidoofLoop(r.h, target, options, groups, g + 1, r.v,
                                 r.steps)
       ELSE doBidoofLoop(h, target, options, groups, g + 1, currentTarget,
                         steps)

doBidoof(h, target, options, matchersAndInstructions) ==
  LET parsed == collectGroups(matchersAndInstructions)
  IN IF parsed.threw THEN LegacyThrew(h, <<>>)
     ELSE doBidoofLoop(h, target, options, parsed.programs, 1, target, <<>>)

(***************************************************************************)
(* The program descriptions and inputs explored                            *)
(***************************************************************************)
\* The numbers of the README example: 45 is mapped by modify(v => v + 56).
ReadmeInput == 45
ReadmeAddend == 56
ReadmeOutput == 101

\* The objects the caller holds before anything runs:
\* cell 1 is {a: cell 2}, cell 2 is {b: 5}, cell 3 is {},
\* cell 4 is [1, 2, 3], cell 5 is [4, 5],
\* cell 6 is {a: cell 7}, cell 7 is an instance of a class with b = 5.
InitialHeap ==
  [a \in Addr |->
     CASE a = 1 -> Cell([NoProps EXCEPT !["a"] = Ref(2)])
       [] a = 2 -> Cell([NoProps EXCEPT !["b"] = Num(5)])
       [] a = 3 -> Cell(NoProps)
       [] a = 4 -> ArrayCell(<<Num(1), Num(2), Num(3)>>)
       [] a = 5 -> ArrayCell(<<Num(4), Num(5)>>)
       [] a = 6 -> Cell([NoProps EXCEPT !["a"] = Ref(7)])
       [] a = 7 -> InstanceCell([NoProps EXCEPT !["b"] = Num(5)])
       [] OTHER -> FreeCell]

CallerObjects == {Ref(1), Ref(3), Arr(4), Arr(5), Ref(6)}

\* Each family is an alphabet of tokens with the inputs tried on the
\* descriptions written in it.
RecheckFamily ==
  [alphabet |-> {PositiveDescription,
                 modifyNoMutate(AddCallback(-10)),
                 modifyNoMutate(AddCallback(1))},
   inputs |-> {Num(5), Num(-5)}]

ReadmeFamily ==
  [alphabet |-> {NumberDescription, modifyNoMutate(AddCallback(ReadmeAddend))},
   inputs |-> {Num(ReadmeInput), Ref(3)}]

ChainFamily ==
  [alphabet |-> {PositiveDescription, NumberDescription,
                 transform(AddCallback(-10)), transform(AddCallback(10))},
   inputs |-> {Num(5), Num(-5), Ref(3)}]

ModifyFamily ==
  [alphabet |-> {AnyObjectDescription, NumberDescription,
                 modifyNoMutate(SetCCallback), modifyMutate(SetCCallback),
                 modifyMutate(AddCallback(1))},
   inputs |-> {Ref(1), Ref(3), Num(5)}]

AtFamily ==
  [alphabet |-> {AnyObjectDescription,
                 atNoMutate("a.b", modifyNoMutate(AddCallback(1))),
                 atNoMutate("a.b", transform(AddCallback(1))),
                 atMutate("a.b", replace(Num(7)))},
   inputs |-> {Ref(1), Ref(3), Num(5)}]

ReplaceFamily ==
  [alphabet |-> {PositiveDescription, AnyObjectDescription,
                 replace(Num(7)), replace(Ref(3))},
   inputs |-> {Num(5), Ref(1)}]

SetFamily ==
  [alphabet |-> {AnyObjectDescription,
                 setNoMutate("a.b", Num(7)), setMutate("a.b", Num(7)),
                 mergeNoMutate(Ref(2))},
   inputs |-> {Ref(1), Ref(6)}]

DeleteFamily ==
  [alphabet |-> {AnyObjectDescription,
                 deletePropertyNoMutate("a"), deletePropertyMutate("a")},
   inputs |-> {Ref(1), Ref(3)}]

MergeFamily ==
  [alphabet |-> {ArrayDescription, mergeNoMutate(Arr(4)), mergeMutate(Arr(4))},
   inputs |-> {Arr(5)}]

AppendFamily ==
  [alphabet |-> {ArrayDescription,
                 appendNoMutate(<<Num(6)>>), appendMutate(<<Num(6)>>)},
   inputs |-> {Arr(5)}]

PrependFamily ==
  [alphabet |-> {ArrayDescription,
                 prependNoMutate(<<Num(1), Num(2)>>),
                 prependMutate(<<Num(1), Num(2)>>)},
   inputs |-> {Arr(5), Arr(4)}]

Families ==
  {RecheckFamily, ReadmeFamily, ChainFamily, ModifyFamily, AtFamily,
   ReplaceFamily, SetFamily, DeleteFamily, MergeFamily, AppendFamily,
   PrependFamily}

\* Descriptions whose replace embeds an object of the caller and whose later
\* instructions edit the current value in place.
SharedValueFamily ==
  [alphabet |-> {AnyObjectDescription,
                 replace(Ref(1)),
                 atMutate("a.b", transform(AddCallback(1))),
                 atMutate("a", modifyMutate(SetCCallback))},
   inputs |-> {Ref(3), Num(5)}]

RepeatedFamilies == {SharedValueFamily}

BoundedSeq(S, n) == UNION {[1..k -> S] : k \in 0..n}

WrittenIn(list, family) == \A i \in 1..Len(list) : list[i] \in family.alphabet

InputsFor(list) ==
  UNION {family.inputs :
           family \in {f \in Families \cup RepeatedFamilies :
                          WrittenIn(list, f)}}

(***************************************************************************)
(* State                                                                   *)
(***************************************************************************)
VARIABLES
  tokens,         \* the programDescription handed to makeBidoof
  options,        \* the Options handed to makeBidoof
  pc,             \* where the caller and the engine are
  programs,       \* makeBidoof's programs, once parsed
  heap,           \* the objects
  input,          \* the input of the invocation
  inputSnapshot,  \* the deep content of the input when it was supplied
  currentTarget,  \* runPrograms' currentTarget
  progIdx,        \* position of runPrograms' loop in programs
  rpInput,        \* runProgram's input parameter
  rpTarget,       \* runProgram's currentTarget
  matched,        \* runProgram's matched
  instrIdx,       \* position of runProgram's loop in program.instructions
  result,         \* what the compiled transform returned
  trace,          \* one entry per instruction visited by runProgram
  returns,        \* one entry per runProgram call that returned
  thrown,         \* whether a modifier has thrown in this invocation
  runs            \* one entry per invocation that returned

vars == <<tokens, options, pc, programs, heap, input, inputSnapshot,
          currentTarget, progIdx, rpInput, rpTarget, matched, instrIdx,
          result, trace, returns, thrown, runs>>

defaultOptions == [stopAfterFirstMatch |-> FALSE]

\* The state before makeBidoof is called on a description written in one of
\* the families.
Start(families) ==
  /\ \E family \in families : tokens \in BoundedSeq(family.alphabet, MaxTokens)
  /\ options \in {defaultOptions, [stopAfterFirstMatch |-> TRUE]}
  /\ pc = "start"
  /\ programs = <<>>
  /\ heap = InitialHeap
  /\ input = Undefined
  /\ inputSnapshot = Snapshot(InitialHeap, Undefined)
  /\ currentTarget = Undefined
  /\ progIdx = 0
  /\ rpInput = Undefined
  /\ rpTarget = Undefined
  /\ matched = FALSE
  /\ instrIdx = 0
  /\ result = Undefined
  /\ trace = <<>>
  /\ returns = <<>>
  /\ thrown = FALSE
  /\ runs = <<>>

Init == Start(Families)

(***************************************************************************)
(* makeBidoof                                                              *)
(***************************************************************************)
\* makeBidoof(programDescription, options): the description is parsed at once;
\* the transform is returned only if parsing did not throw.
MakeBidoof ==
  /\ pc = "start"
  /\ LET parsed == parseIntoPrograms(tokens)
     IN /\ programs' = parsed.programs
        /\ pc' = IF parsed.threw THEN "compileError" ELSE "compiled"
  /\ UNCHANGED <<tokens, options, heap, input, inputSnapshot, currentTarget,
                 progIdx, rpInput, rpTarget, matched, instrIdx, result, trace,
                 returns>>
  /\ UNCHANGED <<thrown, runs>>

(***************************************************************************)
(* runPrograms and runProgram, one loop iteration at a time                *)
(***************************************************************************)
\* The caller invokes the transform: runPrograms starts on the input.
Invoke(v) ==
  /\ pc = "compiled"
  /\ input' = v
  /\ inputSnapshot' = Snapshot(heap, v)
  /\ currentTarget' = v
  /\ progIdx' = 1
  /\ pc' = "runPrograms"
  /\ UNCHANGED <<tokens, options, programs, heap, rpInput, rpTarget, matched,
                 instrIdx, result, trace, returns>>
  /\ UNCHANGED <<thrown, runs>>

\* A runPrograms that hands every program the original input.
runProgramArgumentOriginal == input

\* The value runPrograms passes to runProgram.
runProgramArgument == currentTarget

\* A runProgram whose matched starts as the matcher's verdict on its input.
matchedAtEntryFromMatcher ==
  matches(heap, programs[progIdx], runProgramArgument)

\* let matched = false
matchedAtEntry == FALSE

\* runPrograms' loop takes the next program and calls runProgram on the
\* current target.
EnterProgram ==
  /\ pc = "runPrograms"
  /\ progIdx <= Len(programs)
  /\ matched' = matchedAtEntry
  /\ rpInput' = runProgramArgument
  /\ rpTarget' = runProgramArgument
  /\ instrIdx' = 1
  /\ pc' = "runProgram"
  /\ UNCHANGED <<tokens, options, programs, heap, input, inputSnapshot,
                 currentTarget, progIdx, result, trace, returns>>
  /\ UNCHANGED <<thrown, runs>>

program == programs[progIdx]
instruction == program.instructions[instrIdx]

Roots(target) ==
  CallerObjects \cup {input, currentTarget, target}
  \cup {runs[i].result : i \in 1..Len(runs)}

Visit(applied, after, h) ==
  [program |-> progIdx, instruction |-> instrIdx, applied |-> applied,
   before |-> rpTarget, after |-> after,
   contentBefore |-> Snapshot(heap, rpTarget),
   contentAfter |-> Snapshot(h, after),
   originalAfter |-> Snapshot(h, rpTarget)]

\* A runProgram that tests the matcher against the value it was called with.
MatcherHoldsForInput == matches(heap, program, rpInput)

\* program.matches(currentTarget), as runProgram's loop evaluates it.
MatcherHolds == matches(heap, program, rpTarget)

\* The test after which runPrograms leaves its loop.
StopNow == matched /\ options.stopAfterFirstMatch

\* Enough free cells for the draft and the objects one modifier makes.
HeapFits == Cardinality(FreeAddrs(heap)) >= Size(heap, rpTarget) + 2

\* A loop that stays on the instruction it has just visited.
sameInstruction == instrIdx

\* for (const instruction of program.instructions): on to the next one.
nextInstruction == instrIdx + 1

\* The matcher holds for the current value: the instruction is applied.
ApplyInstruction ==
  /\ pc = "runProgram"
  /\ instrIdx <= Len(program.instructions)
  /\ MatcherHolds
  /\ HeapFits
  /\ LET r == CallModifier(instruction, heap, rpTarget)
     IN /\ ~r.threw
        /\ matched' = TRUE
        /\ rpTarget' = r.v
        /\ heap' = Collect(r.h, Roots(r.v))
        /\ trace' = Append(trace, Visit(TRUE, r.v, r.h))
  /\ instrIdx' = nextInstruction
  /\ UNCHANGED <<tokens, options, pc, programs, input, inputSnapshot,
                 currentTarget, progIdx, rpInput, result, returns>>
  /\ UNCHANGED <<thrown, runs>>

\* A runProgram that catches what the modifier throws and goes on with the
\* next instruction.
InstructionThrowsCaught ==
  /\ pc = "runProgram"
  /\ instrIdx <= Len(program.instructions)
  /\ MatcherHolds
  /\ HeapFits
  /\ LET r == CallModifier(instruction, heap, rpTarget)
     IN /\ r.threw
        /\ heap' = Collect(r.h, Roots(rpTarget))
  /\ matched' = TRUE
  /\ thrown' = TRUE
  /\ instrIdx' = nextInstruction
  /\ UNCHANGED <<tokens, options, pc, programs, input, inputSnapshot,
                 currentTarget, progIdx, rpInput, rpTarget, result, trace,
                 returns, runs>>

\* The modifier throws: the error leaves runProgram and runPrograms.
InstructionThrows ==
  /\ pc = "runProgram"
  /\ instrIdx <= Len(program.instructions)
  /\ MatcherHolds
  /\ HeapFits
  /\ LET r == CallModifier(instruction, heap, rpTarget)
     IN /\ r.threw
        /\ heap' = Collect(r.h, Roots(rpTarget))
  /\ matched' = TRUE
  /\ thrown' = TRUE
  /\ pc' = "threw"
  /\ UNCHANGED <<tokens, options, programs, input, inputSnapshot,
                 currentTarget, progIdx, rpInput, rpTarget, instrIdx, result,
                 trace, returns, runs>>

\* The matcher does not hold for the current value: the instruction is
\* skipped.
SkipInstruction ==
  /\ pc = "runProgram"
  /\ instrIdx <= Len(program.instructions)
  /\ ~MatcherHolds
  /\ trace' = Append(trace, Visit(FALSE, rpTarget, heap))
  /\ instrIdx' = nextInstruction
  /\ UNCHANGED <<tokens, options, pc, programs, heap, input, inputSnapshot,
                 currentTarget, progIdx, rpInput, rpTarget, matched, result,
                 returns>>
  /\ UNCHANGED <<thrown, runs>>

\* runProgram returns {matched, output}; runPrograms adopts the output and
\* leaves its loop if the program matched and stopAfterFirstMatch is set.
ReturnProgram ==
  /\ pc = "runProgram"
  /\ instrIdx > Len(program.instructions)
  /\ returns' = Append(returns, [program |-> progIdx, received |-> rpInput,
                                 matched |-> matched, output |-> rpTarget])
  /\ currentTarget' = rpTarget
  /\ IF StopNow
     THEN progIdx' = Len(programs) + 1
     ELSE progIdx' = progIdx + 1
  /\ pc' = "runPrograms"
  /\ UNCHANGED <<tokens, options, programs, heap, input, inputSnapshot,
                 rpInput, rpTarget, matched, instrIdx, result, trace>>
  /\ UNCHANGED <<thrown, runs>>

\* runPrograms returns its current target to the caller.
ReturnPrograms ==
  /\ pc = "runPrograms"
  /\ progIdx > Len(programs)
  /\ result' = currentTarget
  /\ runs' = Append(runs, [input |-> input, inputContent |-> inputSnapshot,
                           result |-> currentTarget,
                           resultContent |-> Snapshot(heap, currentTarget)])
  /\ pc' = "done"
  /\ UNCHANGED <<tokens, options, programs, heap, input, inputSnapshot,
                 currentTarget, progIdx, rpInput, rpTarget, matched, instrIdx,
                 trace, returns, thrown>>

Next ==
  \/ MakeBidoof
  \/ \E v \in InputsFor(tokens) : Invoke(v)
  \/ EnterProgram
  \/ ApplyInstruction
  \/ InstructionThrows
  \/ SkipInstruction
  \/ ReturnProgram
  \/ ReturnPrograms

Spec == Init /\ [][Next]_vars

(***************************************************************************)
(* The compiled transform called more than once                            *)
(***************************************************************************)
\* The caller invokes the transform again, after an invocation that
\* returned: runPrograms starts afresh on the new input, over the same
\* programs and the heap as the earlier invocations left it.
InvokeAgain(v) ==
  /\ pc = "done"
  /\ Len(runs) < MaxRuns
  /\ input' = v
  /\ inputSnapshot' = Snapshot(heap, v)
  /\ currentTarget' = v
  /\ progIdx' = 1
  /\ rpInput' = Undefined
  /\ rpTarget' = Undefined
  /\ matched' = FALSE
  /\ instrIdx' = 0
  /\ result' = Undefined
  /\ trace' = <<>>
  /\ returns' = <<>>
  /\ thrown' = FALSE
  /\ pc' = "runPrograms"
  /\ UNCHANGED <<tokens, options, programs, heap, runs>>

RepeatedInit == Start(RepeatedFamilies)

RepeatedNext ==
  \/ Next
  \/ \E v \in InputsFor(tokens) : InvokeAgain(v)

RepeatedSpec == RepeatedInit /\ [][RepeatedNext]_vars

(***************************************************************************)
(* Properties                                                              *)
(***************************************************************************)
Visits == 1..Len(trace)
Calls == 1..Len(returns)

\* The visits runProgram made while running program p.
VisitsOf(p) == {i \in Visits : trace[i].program = p}

\* The value program p was called with, read off the chain of outputs.
Received(p) == IF p = 1 THEN input ELSE returns[p - 1].output

Satisfies(value, p) == isOfType(heap, value, programs[p].matcher)

\* C1: runProgram visits a program's instructions in list order and tests
\* the matcher against the current value before each one, applying the
\* instruction iff the matcher holds; so once an instruction yields a value
\* that does not satisfy the matcher, every later instruction of the program
\* is skipped, the output is that value and matched is reported true.
C1_RecheckBeforeEveryInstruction ==
  /\ \A i \in Visits :
       LET e == trace[i]
       IN /\ e.applied <=> Satisfies(e.before, e.program)
          /\ IF i > 1 /\ trace[i - 1].program = e.program
             THEN /\ e.instruction = trace[i - 1].instruction + 1
                  /\ e.before = trace[i - 1].after
             ELSE e.instruction = 1
          /\ ~e.applied => e.after = e.before
          /\ \A j \in Visits :
               (j > i /\ trace[j].program = e.program
                      /\ ~Satisfies(e.after, e.program))
               => ~trace[j].applied /\ trace[j].after = e.after
  /\ \A k \in Calls : \A i \in VisitsOf(k) :
       (trace[i].applied /\ ~Satisfies(trace[i].after, k))
       => returns[k].output = trace[i].after /\ returns[k].matched

\* A program returned matched after one of its instructions made the value
\* stop satisfying the matcher, and a later instruction of it was skipped.
C1_Witness ==
  \E k \in Calls : \E i, j \in VisitsOf(k) :
    /\ i < j
    /\ trace[i].applied
    /\ Satisfies(returns[k].received, k) /\ ~Satisfies(trace[i].after, k)
    /\ ~trace[j].applied
    /\ returns[k].matched

\* C2: runPrograms runs the programs in list order, each on the output of
\* the one before (the first on the input); a program whose matcher does not
\* hold for the value it receives hands that value on unchanged, and a
\* program's matcher is tested against the value it receives, not against the
\* original input.
C2_ProgramsChainInListOrder ==
  /\ \A k \in Calls :
       LET r == returns[k]
       IN /\ r.program = k
          /\ r.received = Received(k)
          /\ ~Satisfies(r.received, k) =>
               /\ r.output = r.received
               /\ ~r.matched
               /\ \A i \in VisitsOf(k) :
                    ~trace[i].applied
                    /\ trace[i].contentAfter = trace[i].contentBefore
  /\ \A i \in Visits :
       trace[i].instruction = 1 =>
         /\ trace[i].before = Received(trace[i].program)
         /\ trace[i].applied <=>
              Satisfies(Received(trace[i].program), trace[i].program)

\* A later program was applied to the value an earlier program produced,
\* though its matcher does not hold for the original input.
C2_Witness ==
  /\ pc = "done"
  /\ \E i \in Visits :
       /\ trace[i].program > 1
       /\ trace[i].applied
       /\ returns[trace[i].program - 1].matched
       /\ ~Satisfies(input, trace[i].program)

Invoked == pc \in {"runPrograms", "runProgram", "done", "threw"}

\* The programs whose matcher holds for the input.
MatchingInput == {p \in 1..Len(programs) : Satisfies(input, p)}

FirstOf(S) == CHOOSE p \in S : \A q \in S : p <= q

\* C3: with stopAfterFirstMatch set and two programs whose matchers both
\* hold for the input, only the first of them applies its instructions: no
\* instruction of the second is ever applied and the value returned is the
\* first program's output.
C3_OnlyFirstMatchingProgramApplies ==
  (Invoked /\ options.stopAfterFirstMatch /\ Cardinality(MatchingInput) >= 2)
  => /\ \A i \in Visits :
          trace[i].applied =>
            trace[i].program \notin MatchingInput \ {FirstOf(MatchingInput)}
     /\ pc = "done" =>
          /\ Len(returns) >= FirstOf(MatchingInput)
          /\ result = returns[FirstOf(MatchingInput)].output

\* C4: for an input that satisfies none of the list's matchers, under either
\* option setting, no instruction is applied, nothing is thrown, the input is
\* left as it was and the transform returns the input itself.
C4_UnmatchedInputPassesThrough ==
  (Invoked /\ MatchingInput = {})
  => /\ \A i \in Visits : ~trace[i].applied
     /\ pc # "threw"
     /\ Snapshot(heap, input) = inputSnapshot
     /\ pc = "done" => result = input

\* The transform returned after passing by the instructions of two programs,
\* neither of whose matchers holds for the input.
C4_Witness ==
  /\ pc = "done"
  /\ MatchingInput = {}
  /\ Len(programs) >= 2
  /\ \A p \in 1..Len(programs) : VisitsOf(p) # {}
  /\ result = input

LeadingInstruction == tokens # <<>> /\ isInstruction(tokens[1])

\* C5: a token list whose first element is an instruction is rejected by
\* makeBidoof itself, with the parser's error: no program list is produced
\* and no transform exists to be invoked, so no input is ever supplied and
\* no instruction is ever visited.
C5_LeadingInstructionRejectedAtCompile ==
  LeadingInstruction
  => /\ pc \in {"start", "compileError"}
     /\ programs = <<>>
     /\ input = Undefined
     /\ trace = <<>>

\* makeBidoof threw on a list that starts with an instruction and goes on
\* with a matcher and its instruction.
C5_Witness ==
  /\ pc = "compileError"
  /\ LeadingInstruction
  /\ \E i \in 2..Len(tokens) - 1 :
       ~isInstruction(tokens[i]) /\ isInstruction(tokens[i + 1])

MatcherPositions == {i \in 1..Len(tokens) : ~isInstruction(tokens[i])}

\* Where the i-th matcher description stands in the token list.
NthMatcher(i) ==
  CHOOSE p \in MatcherPositions :
    Cardinality({q \in MatcherPositions : q <= p}) = i

\* Where the instructions after the i-th matcher description end.
GroupEnd(i) ==
  IF i = Cardinality(MatcherPositions) THEN Len(tokens)
  ELSE NthMatcher(i + 1) - 1

\* C6: for a token list that begins with a matcher description,
\* parseIntoPrograms returns one program per matcher description, in source
\* order, the i-th holding the coerced i-th matcher and exactly the
\* instructions between the i-th matcher description and the next one (or the
\* end of the list), in their order; a matcher followed by no instruction
\* gives a program with no instructions.
C6_OneProgramPerMatcher ==
  (pc # "start" /\ tokens # <<>> /\ ~LeadingInstruction)
  => /\ pc # "compileError"
     /\ Len(programs) = Cardinality(MatcherPositions)
     /\ \A i \in 1..Len(programs) :
          /\ programs[i].matcher = coerceToType(tokens[NthMatcher(i)])
          /\ programs[i].instructions =
               SubSeq(tokens, NthMatcher(i) + 1, GroupEnd(i))

\* A list was parsed into programs of which one has no instruction and
\* another has two.
C6_Witness ==
  /\ pc = "compiled"
  /\ \E i, j \in 1..Len(programs) :
       /\ programs[i].instructions = <<>>
       /\ Len(programs[j].instructions) = 2
       /\ programs[j].instructions[1] # programs[j].instructions[2]

\* The instruction a visit was about.
InstructionOf(e) == programs[e.program].instructions[e.instruction]

IsModifyMutate(ins) == ins.modifier.fn = "modifyMutate"

IsModifyNoMutate(ins) ==
  /\ ins.modifier.fn = "withoutMutating"
  /\ ins.modifier.instruction.modifier.fn = "modifyMutate"

CallbackOf(ins) ==
  IF IsModifyMutate(ins) THEN ins.modifier.callback
  ELSE ins.modifier.instruction.modifier.callback

NumberContent(n) == [t |-> "number", n |-> n, f |-> <<>>, items |-> <<>>]
ObjectContent(f) == [t |-> "object", n |-> 0, f |-> f, items |-> <<>>]
ArrayContent(items) == [t |-> "array", n |-> 0, f |-> <<>>, items |-> items]

\* The content an object has after the callback's edits in place: only the
\* setC callback edits, and it writes the property c.
Edited(cb, content) ==
  IF cb.name = "setC" /\ content.t = "object"
  THEN ObjectContent([k \in DOMAIN content.f \cup {"c"} |->
                        IF k = "c" THEN NumberContent(cb.k) ELSE content.f[k]])
  ELSE content

\* C7: with the matcher x > 0, the instructions modify(x => x - 10) and
\* modify(x => x + 1) and the input 5, the first instruction is applied and
\* gives -5, the second is skipped, and the output is -5 with matched true.
C7_RecheckScenario ==
  (/\ tokens = <<PositiveDescription, modifyNoMutate(AddCallback(-10)),
                 modifyNoMutate(AddCallback(1))>>
   /\ input = Num(5)
   /\ pc = "done")
  => /\ Len(trace) = 2
     /\ trace[1].applied /\ trace[1].after = Num(-5)
     /\ ~trace[2].applied
     /\ returns[1].matched /\ returns[1].output = Num(-5)
     /\ result = Num(-5)

C9_ReadmeExample ==
  (/\ tokens = <<NumberDescription, modifyNoMutate(AddCallback(ReadmeAddend))>>
   /\ options = defaultOptions
   /\ input = Num(ReadmeInput)
   /\ pc = "done")
  => result = Num(ReadmeOutput)

IsAtMutate(ins) == ins.modifier.fn = "atMutate"

IsAtNoMutate(ins) ==
  /\ ins.modifier.fn = "withoutMutating"
  /\ ins.modifier.instruction.modifier.fn = "atMutate"

\* The closure of the atMutate instruction inside an at instruction.
AtOf(ins) ==
  IF IsAtMutate(ins) THEN ins.modifier
  ELSE ins.modifier.instruction.modifier

UndefinedContent == [t |-> "undefined", n |-> 0, f |-> <<>>, items |-> <<>>]

RECURSIVE ContentAt(_, _)
\* The content found at keys below a content; undefined where there is none.
ContentAt(content, keys) ==
  IF keys = <<>> THEN content
  ELSE IF content.t # "object" \/ Head(keys) \notin DOMAIN content.f
       THEN UndefinedContent
       ELSE ContentAt(content.f[Head(keys)], Tail(keys))

\* The properties of a content other than key.
Beside(content, key) ==
  IF content.t # "object" THEN <<>>
  ELSE [k \in DOMAIN content.f \ {key} |-> content.f[k]]

RECURSIVE OffPath(_, _)
\* What lies beside the path at each level of it.
OffPath(content, keys) ==
  IF keys = <<>> THEN <<>>
  ELSE <<Beside(content, Head(keys))>>
       \o OffPath(ContentAt(content, <<Head(keys)>>), Tail(keys))

\* C10: at(path, inner) applied to an object reads the child at path, applies
\* inner's modifier to it and writes the result back at path, leaving what is
\* beside the path as it was; so at("a.b", modify(x => x + 1)) applied to
\* {a: {b: 5}} yields {a: {b: 6}}.  (The children at the paths explored are
\* primitives, which the modifier handles the same in any heap.)
C10_AtAppliesInnerAtPath ==
  /\ \A i \in Visits :
       LET e == trace[i]
           ins == InstructionOf(e)
       IN (e.applied /\ (IsAtMutate(ins) \/ IsAtNoMutate(ins)))
          => LET keys == castPath(AtOf(ins).path)
                 child == ContentAt(e.contentBefore, keys)
                 r == CallModifier(AtOf(ins).instruction, heap,
                                   [t |-> child.t, n |-> child.n])
             IN /\ ContentAt(e.contentAfter, keys) = Snapshot(r.h, r.v)
                /\ OffPath(e.contentAfter, keys) = OffPath(e.contentBefore, keys)
  /\ (/\ tokens = <<AnyObjectDescription,
                    atNoMutate("a.b", modifyNoMutate(AddCallback(1)))>>
      /\ input = Ref(1)
      /\ inputSnapshot = ObjectContent([a |-> ObjectContent([b |-> NumberContent(5)])])
      /\ pc = "done")
     => Snapshot(heap, result) =
          ObjectContent([a |-> ObjectContent([b |-> NumberContent(6)])])

\* C19: runProgram reports matched = true iff the program has at least one
\* instruction and the value it receives satisfies the matcher.  A program
\* without instructions never reports matched, so under stopAfterFirstMatch
\* it does not stop the chain even when its matcher holds for the value it
\* receives: the program after it is run too.
C19_MatchedNeedsAnInstruction ==
  /\ \A k \in Calls :
       /\ returns[k].matched <=>
            (programs[k].instructions # <<>> /\ Satisfies(returns[k].received, k))
       /\ programs[k].instructions = <<>> => ~returns[k].matched
  /\ \A k \in 1..Len(programs) - 1 :
       (/\ pc = "done"
        /\ options.stopAfterFirstMatch
        /\ Len(returns) >= k
        /\ programs[k].instructions = <<>>
        /\ \A j \in 1..k - 1 : ~returns[j].matched)
       => Len(returns) >= k + 1

\* Under stopAfterFirstMatch a program without instructions received a value
\* its matcher holds for, reported matched = false, and the program after it
\* applied an instruction.
C19_Witness ==
  /\ pc = "done"
  /\ options.stopAfterFirstMatch
  /\ \E k \in Calls :
       /\ programs[k].instructions = <<>>
       /\ Satisfies(returns[k].received, k)
       /\ ~returns[k].matched
       /\ \E i \in VisitsOf(k + 1) : trace[i].applied

\* The instructions written in the token list.
InstructionPositions == {i \in 1..Len(tokens) : isInstruction(tokens[i])}

\* Where the instruction of a visit stands in the token list.
TokenOf(e) == NthMatcher(e.program) + e.instruction

\* The modifier calls made so far: the applied visits and the call that threw.
ModifierCalls ==
  Cardinality({i \in Visits : trace[i].applied}) + (IF thrown THEN 1 ELSE 0)

Running == pc \in {"runPrograms", "runProgram"}

RECURSIVE StepsOfPrograms(_)
\* The steps runPrograms can still take over the programs from p on: for each
\* one the call, a visit per instruction and the return.
StepsOfPrograms(p) ==
  IF p > Len(programs) THEN 0
  ELSE Len(programs[p].instructions) + 2 + StepsOfPrograms(p + 1)

\* An upper bound on the steps left before the run returns or throws.
StepsLeft ==
  CASE pc = "runPrograms" -> 1 + StepsOfPrograms(progIdx)
    [] pc = "runProgram" ->
         1 + StepsOfPrograms(progIdx + 1)
           + (Len(programs[progIdx].instructions) + 1 - instrIdx) + 1
    [] OTHER -> 0

C20_VisitsBounded ==
  /\ \A i, j \in Visits : i < j => TokenOf(trace[i]) < TokenOf(trace[j])
  /\ \A i \in Visits : TokenOf(trace[i]) \in InstructionPositions
  /\ \A i, j \in Visits :
       (i < j /\ trace[i].program = trace[j].program /\ trace[j].applied)
       => trace[i].applied
  /\ thrown =>
       /\ isInstruction(tokens[NthMatcher(progIdx) + instrIdx])
       /\ \A i \in Visits :
            TokenOf(trace[i]) < NthMatcher(progIdx) + instrIdx
  /\ ModifierCalls <= Cardinality(InstructionPositions)
  /\ Len(trace) <= Cardinality(InstructionPositions)

\* C20: every run terminates after visiting each instruction at most once:
\* the visits (and so the modifier calls) happen in token-list order, each
\* instruction at most once, the applied instructions of a program are a
\* prefix of its instruction list, the modifier calls never outnumber the
\* instructions of the list, and every step of a run lowers a bound on the
\* steps it has left, a natural number that is zero only once the run has
\* returned or thrown.
C20_RunTerminates ==
  /\ []C20_VisitsBounded
  /\ [](StepsLeft \in Nat /\ (Running => StepsLeft > 0))
  /\ [][Running => StepsLeft' < StepsLeft]_vars

\* A run ended having visited every one of at least three instructions, with
\* one program applying a first instruction and skipping a later one.
C20_Witness ==
  /\ pc = "done"
  /\ Cardinality(InstructionPositions) >= 3
  /\ Len(trace) = Cardinality(InstructionPositions)
  /\ \E i, j \in Visits :
       /\ i < j /\ trace[i].program = trace[j].program
       /\ trace[i].applied /\ ~trace[j].applied

\* C16: when an instruction's modifier throws, the whole runPrograms call
\* ends with that error: the call is over, nothing is returned to the caller
\* (neither by runProgram nor by the transform), and from then on no
\* instruction is visited, of that program or of a later one.
C16_ThrowEndsTheRun ==
  /\ [](thrown =>
          /\ pc = "threw"
          /\ result = Undefined
          /\ runs = <<>>
          /\ Len(returns) = progIdx - 1
          /\ \A i \in Visits :
               TokenOf(trace[i]) < NthMatcher(progIdx) + instrIdx)
  /\ [][thrown => UNCHANGED <<trace, returns, result, runs, heap>>]_vars

\* A modifier threw in a program that is followed by a program with an
\* instruction, whose matcher holds for the value at hand.
C16_Witness ==
  /\ thrown
  /\ \E p \in progIdx + 1..Len(programs) :
       /\ programs[p].instructions # <<>>
       /\ Satisfies(rpTarget, p)

IsReplace(ins) == ins.modifier.fn = "replace"

\* C14: the transform compiled from one matcher M and the one instruction
\* replace(x) maps every input that satisfies M to x and every other input to
\* itself, under either option setting.
C14_SingleReplace ==
  (/\ pc = "done"
   /\ Len(tokens) = 2
   /\ ~isInstruction(tokens[1])
   /\ isInstruction(tokens[2]) /\ IsReplace(tokens[2]))
  => result = IF isOfType(heap, input, coerceToType(tokens[1]))
              THEN tokens[2].modifier.newValue
              ELSE input

\* A transform of one matcher and one replace gave the new value for an
\* input other than it that satisfies the matcher.
C14_Witness ==
  /\ pc = "done"
  /\ Len(tokens) = 2
  /\ ~isInstruction(tokens[1])
  /\ isInstruction(tokens[2]) /\ IsReplace(tokens[2])
  /\ isOfType(heap, input, coerceToType(tokens[1]))
  /\ result = tokens[2].modifier.newValue
  /\ result # input

\* The token list is [M, replace(x), M, replace(x)] and the input and x both
\* satisfy M.
TwiceReplaced ==
  /\ Len(tokens) = 4
  /\ ~isInstruction(tokens[1])
  /\ isInstruction(tokens[2]) /\ IsReplace(tokens[2])
  /\ tokens[3] = tokens[1] /\ tokens[4] = tokens[2]
  /\ isOfType(heap, input, coerceToType(tokens[1]))
  /\ isOfType(heap, tokens[2].modifier.newValue, coerceToType(tokens[1]))

\* C15: whenever v and x both satisfy M, the transform compiled from
\* [M, replace(x), M, replace(x)] returns for v what the transform compiled
\* from [M, replace(x)] returns for v, under either option setting.
C15_ReplaceTwiceIsReplaceOnce ==
  (pc = "done" /\ TwiceReplaced)
  => LET once == makeBidoof(InitialHeap, SubSeq(tokens, 1, 2), options, input)
     IN ~once.threw /\ result = once.v

\* Without stopAfterFirstMatch both replace(x) of [M, replace(x), M,
\* replace(x)] were applied, to an input other than x.
C15_Witness ==
  /\ pc = "done"
  /\ TwiceReplaced
  /\ ~options.stopAfterFirstMatch
  /\ input # tokens[2].modifier.newValue
  /\ Len(trace) = 2 /\ trace[1].applied /\ trace[2].applied
  /\ result = tokens[2].modifier.newValue

\* The instructions that the legacy module has too.
LegacyExpressible(token) ==
  ~isInstruction(token)
  \/ IsModifyNoMutate(token) \/ IsModifyMutate(token) \/ IsReplace(token)

\* The same description, written with the legacy module's instructions.
LegacyToken(token) ==
  IF ~isInstruction(token) THEN token
  ELSE IF IsModifyNoMutate(token) THEN legacyModify(CallbackOf(token))
  ELSE IF IsModifyMutate(token) THEN legacyModifyMutate(CallbackOf(token))
  ELSE legacyReplace(token.modifier.newValue)

LegacyTokens == [i \in 1..Len(tokens) |-> LegacyToken(tokens[i])]

\* The two values satisfy the same matchers of the list.
SameMatchers(v, w) ==
  \A p \in 1..Len(programs) : Satisfies(v, p) <=> Satisfies(w, p)

\* The run of the current engine and the run of the legacy engine are over a
\* description both modules can express, in which every program has an
\* instruction, and no instruction either of them applied changed which
\* matchers the value satisfies.
Comparable(old) ==
  /\ \A i \in 1..Len(tokens) : LegacyExpressible(tokens[i])
  /\ \A p \in 1..Len(programs) : programs[p].instructions # <<>>
  /\ \A i \in Visits : SameMatchers(trace[i].before, trace[i].after)
  /\ \A i \in 1..Len(old.steps) :
       SameMatchers(old.steps[i].before, old.steps[i].after)

\* C18: the legacy doBidoof tests each group's matcher once, against the
\* original input, and then applies all the group's instructions; it returns
\* the same output as the current runPrograms for every program list and
\* input in which no instruction changes whether the value satisfies any
\* matcher of the list and every program has at least one instruction.
C18_LegacyAgreesWhenMatchingIsStable ==
  pc = "done"
  => LET old == doBidoof(InitialHeap, input, options, LegacyTokens)
     IN Comparable(old)
        => /\ ~old.threw
           /\ Snapshot(heap, result) = Snapshot(old.h, old.v)

\* The objects embedded in the instructions of the description.
RECURSIVE Embedded(_)
Embedded(ins) ==
  CASE ins.modifier.fn = "replace" ->
         IF IsRef(ins.modifier.newValue) THEN {ins.modifier.newValue} ELSE {}
    [] ins.modifier.fn \in {"withoutMutating", "atMutate"} ->
         Embedded(ins.modifier.instruction)
    [] OTHER -> {}

EmbeddedValues ==
  UNION {Embedded(tokens[i]) : i \in InstructionPositions}

\* C12: a run of a compiled list touches only the input passed to it.  Over
\* any runs of the same compiled list the program list stays as it was
\* parsed, the values embedded in its instructions keep their content, the
\* result an earlier run returned keeps its content unless it is part of the
\* input given to the later run, and two runs on inputs of equal content
\* return results of equal content.
C12_RunsTouchOnlyTheirInput ==
  /\ pc \notin {"start", "compileError"}
       => programs = parseIntoPrograms(tokens).programs
  /\ \A e \in EmbeddedValues : Snapshot(heap, e) = Snapshot(InitialHeap, e)
  /\ \A i \in 1..Len(runs) :
       Reach(heap, runs[i].result) \cap Reach(heap, input) = {}
       => Snapshot(heap, runs[i].result) = runs[i].resultContent
  /\ \A i, j \in 1..Len(runs) :
       runs[i].inputContent = runs[j].inputContent
       => runs[i].resultContent = runs[j].resultContent

\* C13: merge([1,2,3]) applied to the array [4,5] yields [4,5,3].
C13_MergeArraysExample ==
  (/\ tokens \in {<<ArrayDescription, mergeNoMutate(Arr(4))>>,
                   <<ArrayDescription, mergeMutate(Arr(4))>>}
   /\ Snapshot(InitialHeap, Arr(4)) = ArrayContent(<<Num(1), Num(2), Num(3)>>)
   /\ input = Arr(5)
   /\ inputSnapshot = ArrayContent(<<Num(4), Num(5)>>)
   /\ pc = "done")
  => Snapshot(heap, result) = ArrayContent(<<Num(4), Num(5), Num(3)>>)

IsPrependMutate(ins) == ins.modifier.fn = "prependMutate"
IsPrependNoMutate(ins) == ins.modifier.fn = "prependNoMutate"

\* C17: applied to an array, the non-mutating prepend(...items) returns the
\* items followed by the array's elements in order, in a new array, and
\* leaves the array it was given as it was; the mutating prepend leaves that
\* same sequence in the array it was given.
C17_PrependForms ==
  \A i \in Visits :
    LET e == trace[i]
        ins == InstructionOf(e)
    IN (e.applied /\ e.before.t = "array") =>
         /\ IsPrependNoMutate(ins) =>
              /\ e.contentAfter =
                   ArrayContent(ins.modifier.items \o e.contentBefore.items)
              /\ e.originalAfter = e.contentBefore
              /\ e.after # e.before
         /\ IsPrependMutate(ins) =>
              /\ e.contentAfter =
                   ArrayContent(ins.modifier.items \o e.contentBefore.items)
              /\ e.after = e.before

\* One run applied both forms of prepend, with the same items, each to an
\* array that was not empty.
C17_Witness ==
  \E i, j \in Visits :
    /\ trace[i].applied /\ trace[j].applied
    /\ IsPrependNoMutate(InstructionOf(trace[i]))
    /\ IsPrependMutate(InstructionOf(trace[j]))
    /\ InstructionOf(trace[i]).modifier.items
         = InstructionOf(trace[j]).modifier.items
    /\ trace[i].contentBefore.items # <<>>
    /\ trace[j].contentBefore.items # <<>>
    /\ trace[i].contentAfter.items # trace[i].contentBefore.items

\* The instructions that have a mutating and a non-mutating form made with
\* withoutMutating.
PairedKinds ==
  {"setMutate", "mergeMutate", "modifyMutate", "appendMutate",
   "deletePropertyMutate"}

IsMutatingForm(ins) == ins.modifier.fn \in PairedKinds

IsNonMutatingForm(ins) ==
  /\ ins.modifier.fn = "withoutMutating"
  /\ ins.modifier.instruction.modifier.fn \in PairedKinds

\* C11: applying a non-mutating set, merge, modify, append or deleteProperty
\* leaves the original input deeply unchanged, and returns a reference other
\* than the input whenever it changed anything; the mutating form of the same
\* instruction returns the very reference it was given.
C11_NonMutatingLeavesInputAlone ==
  \A i \in Visits :
    LET e == trace[i]
        ins == InstructionOf(e)
    IN /\ (e.applied /\ IsNonMutatingForm(ins)) =>
            /\ e.originalAfter = e.contentBefore
            /\ e.contentAfter # e.contentBefore => e.after # e.before
       /\ (e.applied /\ IsMutatingForm(ins)) => e.after = e.before

====
